---- MODULE Spec2Model ----
(***************************************************************************)
(* A model of the data engine: the DataEngine orchestration, the shared    *)
(* StreamProcessor (record batcher) and the shared WindowAggregator.       *)
(* Node's stream and event-emitter behaviour is modelled as far as the     *)
(* engine relies on it: listeners are delivered synchronously to the       *)
(* listeners attached when the event is emitted, a Transform ends once,    *)
(* and a stream that has emitted 'end' and 'finish' destroys itself.       *)
(***************************************************************************)
EXTENDS Integers, Sequences, FiniteSets, TLC

(***************************************************************************)
(* Bounds of the model.                                                    *)
(***************************************************************************)
NumSources == 2
MaxRecs == 2
MaxBatch == 2
MaxTime == 1
MaxSlide == 1
MaxWindowFactor == 2

(* Bounds of the record batcher driven by one source.                      *)
BMaxRecs == 6
BMaxBatch == 5

(* Bounds of the window aggregator driven by direct addRecord calls.       *)
WMaxRecs == 3
WMaxSlide == 3
WMaxWindow == 3
WMaxTime == 3
GMaxRecs == 3
SMaxRecs == 3
SMaxSlide == 3
SMaxTime == 9
GMaxTime == 1

(* Bound of the option values offered to the constructor.                  *)
MaxOption == 2

(* The clock value at construction; large enough that no window key is     *)
(* negative.                                                               *)
StartTime == 4

Src == 1..NumSources

VARIABLES
    now,            \* Date.now()
    options,        \* ProcessingOptions given to the constructor
    constructed,    \* new DataEngine(options) has returned
    poison,         \* ids of the input records whose stamping throws
    \* ---- StreamProcessor (one instance, shared by every processFile call)
    buffer,         \* StreamProcessor.buffer
    pProcessing,    \* StreamProcessor.processing
    activeStreams,  \* StreamProcessor.activeStreams
    pState,         \* the Transform: "open", "ending", "destroyed"
    pPending,       \* the processBatch continuation awaited: "none", "transform", "flush"
    writeQueue,     \* records written to the processor while a write is in flight
    procListeners,  \* sources whose 'data', 'end' and 'error' listeners are on the processor
    \* ---- WindowAggregator
    windows,        \* WindowAggregator.windows: startTime -> records
    lastCleanup,    \* WindowAggregator.lastCleanup
    timer,          \* WindowAggregator.timer is set
    nextFire,       \* the time the interval timer is due next
    aggProcessing,  \* WindowAggregator.processing
    tickQueue,      \* windowsToProcess still to visit by the tick in flight
    aggListeners,   \* subscribers of 'aggregation'
    \* ---- DataEngine
    results,        \* DataEngine.results
    promise,        \* per source: the promise processFile returned
    session,        \* per source: its parser and errorHandler streams
    crashed,        \* the process died of an unhandled 'error' event
    \* ---- history (not program state)
    decoded,        \* per source: records decoded so far
    signalled,      \* per source: the terminal event its source signalled
    addCalls,       \* record id -> number of aggregator.addRecord calls
    pushLog,        \* ids of the records passed to this.push, one entry per call
    batchLog,       \* sizes of the batches processBatch has spliced
    chunkLog,       \* per batch: the sizes of its sub-chunks, in order
    evicted,        \* window keys cleanupWindows has deleted
    lastAdd,        \* the time of the last addRecord call
    sequential,     \* per source: its processFile call began after an earlier call resolved
    acceptCalls,    \* record id -> number of StreamProcessor._transform calls
    fatal,          \* sources whose processor 'error' listener has run
    sawLog,         \* a session teardown has run while results and windows were not empty
    emitted,        \* events delivered by emit('aggregation') since construction / cleanup
    tickLog         \* events emitted by the current (or last) tick

procVars == <<buffer, pProcessing, activeStreams, pState, pPending, writeQueue,
              procListeners>>
aggVars == <<windows, lastCleanup, timer, nextFire, aggProcessing, tickQueue, aggListeners>>
engVars == <<results, promise, session, crashed>>
histVars == <<decoded, signalled, fatal, sawLog, addCalls, pushLog, batchLog, chunkLog,
              evicted, lastAdd,
              sequential, acceptCalls, emitted, tickLog>>
vars == <<now, options, constructed, poison, procVars, aggVars, engVars, histVars>>

(***************************************************************************)
(* Records: an ordered mapping from field name to a numeric or textual     *)
(* value.                                                                  *)
(***************************************************************************)
NumField(k, n) == [key |-> k, isNum |-> TRUE, num |-> n, str |-> ""]
StrField(k, s) == [key |-> k, isNum |-> FALSE, num |-> 0, str |-> s]

RecId(s, k) == 10 * s + k
MaxStream == IF BMaxRecs > MaxRecs THEN BMaxRecs ELSE MaxRecs
RecIds == {RecId(s, k) : s \in Src, k \in 1..MaxStream}

(* The k-th record the decoder produces for source s.                      *)
SourceRecord(s, k) == <<NumField("id", RecId(s, k)), NumField("value", 10 * k)>>

IdOf(rec) == rec[1].num
SrcOf(rec) == IdOf(rec) \div 10

(***************************************************************************)
(* StreamProcessor: pure parts.                                            *)
(***************************************************************************)
(* highWaterMark of the StreamProcessor.                                   *)
highWaterMark == 1000

(* processChunk: {...record, timestamp: Date.now()}. The spread keeps the  *)
(* position of an existing timestamp key and appends a new one otherwise.  *)
Stamp(rec, t) ==
    IF \E i \in 1..Len(rec) : rec[i].key = "timestamp"
    THEN [i \in 1..Len(rec) |->
            IF rec[i].key = "timestamp" THEN NumField("timestamp", t) ELSE rec[i]]
    ELSE Append(rec, NumField("timestamp", t))

Min2(a, b) == IF a < b THEN a ELSE b

(* A faulty splice: the batch misses the last record removed.              *)
SpliceBatch_Short(buf, batchSize) == SubSeq(buf, 1, Min2(Len(buf), batchSize) - 1)

(* buffer.splice(0, batchSize): the removed batch and what stays.          *)
SpliceBatch(buf, batchSize) == SubSeq(buf, 1, Min2(Len(buf), batchSize))
SpliceRest(buf, batchSize) == SubSeq(buf, Min2(Len(buf), batchSize) + 1, Len(buf))

(* A faulty chunkArray: it returns the pieces last to first.               *)
RECURSIVE chunkArray_Reversed(_, _)
chunkArray_Reversed(array, size) ==
    IF array = <<>> THEN <<>>
    ELSE chunkArray_Reversed(SubSeq(array, Min2(Len(array), size) + 1, Len(array)), size)
            \o <<SubSeq(array, 1, Min2(Len(array), size))>>

(* chunkArray(array, size): consecutive slices of `size` elements, the     *)
(* last one shorter when size does not divide the length.                  *)
RECURSIVE chunkArray(_, _)
chunkArray(array, size) ==
    IF array = <<>> THEN <<>>
    ELSE <<SubSeq(array, 1, Min2(Len(array), size))>>
            \o chunkArray(SubSeq(array, Min2(Len(array), size) + 1, Len(array)), size)

(* Math.ceil(batch.length / 4), the slice size processBatch asks for.      *)
ChunkSize(batch) == (Len(batch) + 3) \div 4

(* The records processChunk pushes: all of them, or none when stamping one *)
(* of them throws (the catch block logs the error and returns).            *)
processChunk(records, bad) ==
    IF \E i \in 1..Len(records) : IdOf(records[i]) \in bad THEN <<>> ELSE records

(* A faulty processBatch: the first failing chunk ends the batch.          *)
RECURSIVE PushedOf_AbortsOnFailure(_, _)
PushedOf_AbortsOnFailure(chunks, bad) ==
    IF chunks = <<>> THEN <<>>
    ELSE IF \E i \in 1..Len(Head(chunks)) : IdOf(Head(chunks)[i]) \in bad THEN <<>>
    ELSE Head(chunks) \o PushedOf_AbortsOnFailure(Tail(chunks), bad)

(* chunks.map(chunk => this.processChunk(chunk)): the chunks are processed *)
(* one after the other, each body running to its end before the next.      *)
RECURSIVE PushedOf(_, _)
PushedOf(chunks, bad) ==
    IF chunks = <<>> THEN <<>>
    ELSE processChunk(Head(chunks), bad) \o PushedOf(Tail(chunks), bad)

(***************************************************************************)
(* WindowAggregator: pure parts.                                           *)
(***************************************************************************)
CeilDiv(a, b) == (a + b - 1) \div b

(* A faulty bound: the loop misses the oldest window.                      *)
maxWindows_NoExtra(opt) == CeilDiv(opt.windowSize, opt.slidingInterval)

maxWindows(opt) == CeilDiv(opt.windowSize, opt.slidingInterval) + 1

(* A faulty addRecord: the first window starts at t itself.                *)
TargetWindows_Unaligned(opt, t) ==
    {t - i * opt.slidingInterval : i \in
        {j \in 0..(maxWindows(opt) - 1) : j * opt.slidingInterval <= opt.windowSize}}

(* A faulty addRecord: it adds the record to every window of the loop,     *)
(* whatever the window's age.                                              *)
TargetWindows_NoAgeCheck(opt, t) ==
    {(t \div opt.slidingInterval) * opt.slidingInterval - i * opt.slidingInterval :
        i \in 0..(maxWindows(opt) - 1)}

(* The keys addRecord's loop adds the record to at time t.                 *)
TargetWindows(opt, t) ==
    LET windowStart == (t \div opt.slidingInterval) * opt.slidingInterval
    IN  {windowStart - i * opt.slidingInterval : i \in
            {j \in 0..(maxWindows(opt) - 1) :
                t - (windowStart - j * opt.slidingInterval) <= opt.windowSize}}

(* addToWindow for every target key: create the window if absent, push a   *)
(* clone of the record.                                                    *)
addToWindows(w, keys, rec) ==
    [k \in (DOMAIN w) \cup keys |->
        IF k \in keys
        THEN Append(IF k \in DOMAIN w THEN w[k] ELSE <<>>, rec)
        ELSE w[k]]

(* cleanupWindows: delete every window with startTime < now - windowSize.  *)
cleanupWindows(w, opt, t) ==
    [k \in {x \in DOMAIN w : ~(x < t - opt.windowSize)} |-> w[k]]

(* addRecord: the windows and lastCleanup after the call at time t.        *)
NeedsCleanup(opt, t, lc) == t - lc > opt.windowSize

(* The keys an addRecord call at time t deletes from the map.              *)
EvictedKeys(w, opt, t, lc) ==
    IF NeedsCleanup(opt, t, lc)
    THEN {k \in (DOMAIN w) \cup TargetWindows(opt, t) : k < t - opt.windowSize}
    ELSE {}

addRecordWindows(w, opt, t, lc, rec) ==
    LET added == addToWindows(w, TargetWindows(opt, t), rec)
    IN  IF NeedsCleanup(opt, t, lc) THEN cleanupWindows(added, opt, t) ELSE added

addRecordLastCleanup(opt, t, lc) == IF NeedsCleanup(opt, t, lc) THEN t ELSE lc

(* n calls of addRecord with the same record at the same time: one per     *)
(* 'data' listener attached to the processor.                              *)
RECURSIVE addRecordTimes(_, _, _, _, _, _)
addRecordTimes(n, w, opt, t, lc, rec) ==
    IF n = 0 THEN w
    ELSE addRecordTimes(n - 1, addRecordWindows(w, opt, t, lc, rec), opt, t,
                        addRecordLastCleanup(opt, t, lc), rec)

(* ---- grouping ---- *)
Render(f) == IF f.isNum THEN ToString(f.num) ELSE f.str

RECURSIVE JoinKey(_, _)
JoinKey(rec, i) ==
    IF i > Len(rec) THEN ""
    ELSE IF rec[i].key = "timestamp" THEN JoinKey(rec, i + 1)
    ELSE LET rest == JoinKey(rec, i + 1)
             part == rec[i].key \o ":" \o Render(rec[i])
         IN  IF rest = "" /\ ~(\E j \in (i + 1)..Len(rec) : rec[j].key # "timestamp")
             THEN part
             ELSE part \o "|" \o rest

(* A faulty key: the numeric fields are left out of it.                    *)
getGroupKey_TextOnly(rec) == JoinKey(SelectSeq(rec, LAMBDA f : ~f.isNum), 1)

(* getGroupKey: "key:value" of every field but the timestamp, joined by    *)
(* "|".                                                                    *)
getGroupKey(rec) == JoinKey(rec, 1)

getNumericFields(rec) ==
    SelectSeq([i \in 1..Len(rec) |-> rec[i].key],
              LAMBDA k : \E i \in 1..Len(rec) :
                  rec[i].key = k /\ k # "timestamp" /\ rec[i].isNum)

(* Number(value) for the textual values of the model: "" converts to 0,    *)
(* "20" to 20, every other text to NaN.                                    *)
TextIsNumber(s) == s \in {"", "20"}
TextNumber(s) == IF s = "20" THEN 20 ELSE 0

HasField(rec, k) == \E i \in 1..Len(rec) : rec[i].key = k
FieldOf(rec, k) == rec[CHOOSE i \in 1..Len(rec) : rec[i].key = k]

(* records.map(r => Number(r[field])).filter(v => !isNaN(v))               *)
IsNumberLike(rec, k) ==
    HasField(rec, k) /\ (FieldOf(rec, k).isNum \/ TextIsNumber(FieldOf(rec, k).str))
NumberOf(rec, k) ==
    IF FieldOf(rec, k).isNum THEN FieldOf(rec, k).num ELSE TextNumber(FieldOf(rec, k).str)

FieldValues(recs, k) ==
    LET kept == SelectSeq(recs, LAMBDA r : IsNumberLike(r, k))
    IN  [i \in 1..Len(kept) |-> NumberOf(kept[i], k)]

RECURSIVE SumSeq(_)
SumSeq(s) == IF s = <<>> THEN 0 ELSE Head(s) + SumSeq(Tail(s))
MaxSeq(s) == CHOOSE x \in {s[i] : i \in 1..Len(s)} : \A j \in 1..Len(s) : s[j] <= x
MinSeq(s) == CHOOSE x \in {s[i] : i \in 1..Len(s)} : \A j \in 1..Len(s) : x <= s[j]

(* calculateGroupAggregations: count, and for every field numeric in the   *)
(* first record, sum/avg/max/min of its number-like occurrences. avg is    *)
(* kept as the exact fraction sum/n.                                       *)
calculateGroupAggregations(recs) ==
    LET fields == getNumericFields(recs[1])
        used == {fields[i] : i \in 1..Len(fields)}
        reported == {k \in used : Len(FieldValues(recs, k)) > 0}
    IN  [count |-> Len(recs),
         stats |-> [k \in reported |->
            LET v == FieldValues(recs, k)
            IN  [sum |-> SumSeq(v), avg |-> <<SumSeq(v), Len(v)>>,
                 max |-> MaxSeq(v), min |-> MinSeq(v)]]]

(* A faulty grouping: every group keeps only the first record with its key.*)
calculateAggregations_FirstOnly(recs) ==
    LET keys == {getGroupKey(recs[i]) : i \in 1..Len(recs)}
    IN  [g \in keys |->
            calculateGroupAggregations(
                <<Head(SelectSeq(recs, LAMBDA r : getGroupKey(r) = g))>>)]

(* calculateAggregations: group key -> group statistics.                   *)
calculateAggregations(recs) ==
    LET keys == {getGroupKey(recs[i]) : i \in 1..Len(recs)}
    IN  [g \in keys |->
            calculateGroupAggregations(SelectSeq(recs, LAMBDA r : getGroupKey(r) = g))]

(* The event processWindow emits for a window.                             *)
AggregationEvent(startTime, recs) ==
    [timestamp |-> startTime, count |-> Len(recs), data |-> calculateAggregations(recs)]

(* A faulty sort: oldest first.                                             *)
RECURSIVE SortDesc_Ascending(_)
SortDesc_Ascending(S) ==
    IF S = {} THEN <<>>
    ELSE LET m == CHOOSE x \in S : \A y \in S : x <= y
         IN  <<m>> \o SortDesc_Ascending(S \ {m})

(* The comparator of processWindows, (a, b) => b - a: most recent first.   *)
RECURSIVE SortDesc(_)
SortDesc(S) ==
    IF S = {} THEN <<>>
    ELSE LET m == CHOOSE x \in S : \A y \in S : y <= x
         IN  <<m>> \o SortDesc(S \ {m})

(* A faulty filter: a window exactly slidingInterval old is left out.      *)
windowsToProcess_Strict(w, opt, t) ==
    SortDesc({k \in DOMAIN w : t - k > opt.slidingInterval})

(* processWindows: the windows a tick visits, most recent first.           *)
windowsToProcess(w, opt, t) ==
    SortDesc({k \in DOMAIN w : t - k >= opt.slidingInterval})

(***************************************************************************)
(* State.                                                                  *)
(***************************************************************************)
Handles == Src \X {"parser", "errorHandler"}
HandlesOf(s) == {<<s, "parser">>, <<s, "errorHandler">>}

NoWindows == [k \in {} |-> <<>>]

OptionChoices ==
    {[batchSize |-> b, windowSize |-> f * si, slidingInterval |-> si] :
        b \in 1..MaxBatch, f \in 1..MaxWindowFactor, si \in 1..MaxSlide}

(* The state after `new DataEngine(options)` at time StartTime, with the   *)
(* options one of `choices`.                                               *)
InitFor(choices) ==
    /\ now = StartTime
    /\ options \in choices
    /\ constructed = TRUE
    /\ buffer = <<>>
    /\ pProcessing = FALSE
    /\ activeStreams = {}
    /\ pState = "open"
    /\ pPending = "none"
    /\ procListeners = {}
    /\ windows = NoWindows
    /\ lastCleanup = StartTime
    /\ timer = TRUE
    /\ nextFire = StartTime + options.slidingInterval
    /\ aggProcessing = FALSE
    /\ tickQueue = <<>>
    /\ aggListeners = {"engine"}
    /\ results = <<>>
    /\ promise = [s \in Src |-> "none"]
    /\ session = [h \in Handles |-> "none"]
    /\ crashed = FALSE
    /\ decoded = [s \in Src |-> 0]
    /\ signalled = [s \in Src |-> "none"]
    /\ fatal = {}
    /\ sawLog = FALSE
    /\ addCalls = [i \in RecIds |-> 0]
    /\ pushLog = <<>>
    /\ batchLog = <<>>
    /\ chunkLog = <<>>
    /\ evicted = {}
    /\ lastAdd = StartTime
    /\ sequential = [s \in Src |-> FALSE]
    /\ acceptCalls = [i \in RecIds |-> 0]
    /\ emitted = <<>>
    /\ tickLog = <<>>
    /\ writeQueue = <<>>

(* Every record of the input can be stamped.                               *)
NoFaults == poison = {}

Init == InitFor(OptionChoices) /\ NoFaults

Live(s) == \A h \in HandlesOf(s) : session[h] = "live"

(***************************************************************************)
(* Promise settlement: resolve and reject act on a pending promise only.   *)
(***************************************************************************)
Resolve(p, S) == [s \in Src |-> IF s \in S /\ p[s] = "pending" THEN "resolved" ELSE p[s]]
Reject(p, S) == [s \in Src |-> IF s \in S /\ p[s] = "pending" THEN "rejected" ELSE p[s]]

(***************************************************************************)
(* The tick in flight holds references to Window objects. An entry is      *)
(* attached while its Window is the one the map holds under that key; once *)
(* the map drops the Window the entry keeps the records it had.            *)
(***************************************************************************)
Detach(queue, oldW, newW) ==
    [i \in 1..Len(queue) |->
        IF queue[i].attached /\ queue[i].startTime \notin DOMAIN newW
        THEN [startTime |-> queue[i].startTime, attached |-> FALSE,
              records |-> oldW[queue[i].startTime]]
        ELSE queue[i]]

(***************************************************************************)
(* stream.on('data', record => this.aggregator.addRecord(record)): every   *)
(* processFile call attaches one such listener to the shared processor, so *)
(* a pushed record reaches addRecord once per attached listener.           *)
(***************************************************************************)
DataListenerCount(L) == Cardinality(L)

RECURSIVE DeliverWindows(_, _, _, _, _, _)
DeliverWindows(batch, n, w, opt, t, lc) ==
    IF batch = <<>> THEN w
    ELSE DeliverWindows(Tail(batch), n,
            addRecordTimes(n, w, opt, t, lc, Stamp(Head(batch), t)), opt, t,
            IF n > 0 THEN addRecordLastCleanup(opt, t, lc) ELSE lc)

DeliverLastCleanup(batch, n, opt, t, lc) ==
    IF batch # <<>> /\ n > 0 THEN addRecordLastCleanup(opt, t, lc) ELSE lc

(* processBatch up to its await, with the processing flag clear: splice    *)
(* the batch, stamp and push every record of every chunk.                  *)
PushBatch(buf, ctx) ==
    LET batch == SpliceBatch(buf, options.batchSize)
        chunks == chunkArray(batch, ChunkSize(batch))
        pushed == PushedOf(chunks, poison)
        n == IF pState = "destroyed" THEN 0 ELSE DataListenerCount(procListeners)
        w == DeliverWindows(pushed, n, windows, options, now, lastCleanup)
    IN  /\ pProcessing' = TRUE
        /\ pPending' = ctx
        /\ buffer' = SpliceRest(buf, options.batchSize)
        /\ windows' = w
        /\ lastCleanup' = DeliverLastCleanup(pushed, n, options, now, lastCleanup)
        /\ tickQueue' = Detach(tickQueue, windows, w)
        /\ addCalls' = [i \in RecIds |->
                IF \E j \in 1..Len(pushed) : IdOf(pushed[j]) = i
                THEN addCalls[i] + n ELSE addCalls[i]]
        /\ pushLog' = pushLog \o [j \in 1..Len(pushed) |-> IdOf(pushed[j])]
        /\ batchLog' = IF batch = <<>> THEN batchLog ELSE Append(batchLog, Len(batch))
        /\ chunkLog' = IF batch = <<>> THEN chunkLog
                       ELSE Append(chunkLog, [i \in 1..Len(chunks) |-> Len(chunks[i])])
        /\ evicted' = evicted \cup
                (IF pushed # <<>> /\ n > 0
                 THEN EvictedKeys(windows, options, now, lastCleanup) ELSE {})
        /\ lastAdd' = IF pushed # <<>> /\ n > 0 THEN now ELSE lastAdd

(***************************************************************************)
(* StreamProcessor.cleanup(): every tracked stream loses its listeners and *)
(* is destroyed, the set is cleared, the processor's own listeners (the    *)
(* 'data', 'end' and 'error' listeners of every processFile call) are      *)
(* removed and the buffer is dropped.                                      *)
(***************************************************************************)
DestroyTracked(sess, tracked) ==
    [h \in Handles |-> IF h \in tracked THEN "destroyed" ELSE sess[h]]

(* A faulty cleanup: it keeps the buffer.                                  *)
ProcessorCleanup_KeepsBuffer(sess, tracked) ==
    /\ session' = DestroyTracked(sess, tracked)
    /\ activeStreams' = {}
    /\ procListeners' = {}
    /\ buffer' = buffer

ProcessorCleanup(sess, tracked) ==
    /\ session' = DestroyTracked(sess, tracked)
    /\ activeStreams' = {}
    /\ procListeners' = {}
    /\ buffer' = <<>>

(* A faulty stop: the subscribers stay attached.                           *)
AggregatorStop_KeepsListeners ==
    /\ timer' = FALSE
    /\ windows' = NoWindows
    /\ aggListeners' = aggListeners
    /\ tickQueue' = Detach(tickQueue, windows, NoWindows)
    /\ UNCHANGED <<lastCleanup, nextFire, aggProcessing>>

(* WindowAggregator.stop()                                                 *)
AggregatorStop ==
    /\ timer' = FALSE
    /\ windows' = NoWindows
    /\ aggListeners' = {}
    /\ tickQueue' = Detach(tickQueue, windows, NoWindows)
    /\ UNCHANGED <<lastCleanup, nextFire, aggProcessing>>

(* DataEngine.cleanup(), with `tracked` the streams the processor tracks.  *)
EngineCleanupBody(sess, tracked) ==
    /\ ProcessorCleanup(sess, tracked)
    /\ AggregatorStop
    /\ results' = <<>>
    /\ emitted' = <<>>

(* A faulty closure: it runs this.cleanup(), the engine-wide reset, where  *)
(* the code runs this.processor.cleanup().                                 *)
SessionCleanup_EngineWide(S) ==
    /\ pState' = "destroyed"
    /\ writeQueue' = <<>>
    /\ EngineCleanupBody(session, activeStreams \cup UNION {HandlesOf(s) : s \in S})
    /\ sawLog' = (sawLog \/ (results # <<>> /\ DOMAIN windows # {}))

(* The cleanup closure of processFile, run by the error listeners of the   *)
(* sources in S: stream.destroy() (the shared processor, whose _destroy    *)
(* runs StreamProcessor.cleanup and drops the writes it had queued),       *)
(* parser.destroy(), errorHandler.destroy() and this.processor.cleanup().  *)
SessionCleanup(S) ==
    /\ pState' = "destroyed"
    /\ writeQueue' = <<>>
    /\ ProcessorCleanup(session, activeStreams \cup UNION {HandlesOf(s) : s \in S})
    /\ sawLog' = (sawLog \/ (results # <<>> /\ DOMAIN windows # {}))
    /\ UNCHANGED <<results, emitted, aggVars>>

(***************************************************************************)
(* DataEngine.processFile(filePath), the synchronous part.                 *)
(***************************************************************************)
ProcessFile(s) ==
    /\ ~crashed
    /\ promise[s] = "none"
    /\ promise' = [promise EXCEPT ![s] = "pending"]
    /\ session' = [h \in Handles |-> IF h \in HandlesOf(s) THEN "live" ELSE session[h]]
    /\ activeStreams' = activeStreams \cup HandlesOf(s)
    /\ procListeners' = procListeners \cup {s}
    /\ sequential' = [sequential EXCEPT ![s] =
            /\ \E o \in Src \ {s} : promise[o] = "resolved"
            /\ \A o \in Src \ {s} : promise[o] \in {"none", "resolved"}]
    /\ UNCHANGED <<now, options, constructed, poison, buffer, pProcessing,
                   pState, pPending, writeQueue, aggVars, results, crashed, decoded,
                   signalled, fatal, sawLog, addCalls, pushLog, batchLog,
                   chunkLog, evicted, lastAdd, acceptCalls, emitted, tickLog>>

(* createReadStream throws synchronously (a path that is not a string, or  *)
(* holds a NUL byte): both streams are tracked already, and the catch      *)
(* block runs this.cleanup() and rejects.                                  *)
ProcessFileThrows(s) ==
    /\ ~crashed
    /\ promise[s] = "none"
    /\ promise' = [promise EXCEPT ![s] = "rejected"]
    /\ EngineCleanupBody(session, activeStreams \cup HandlesOf(s))
    /\ UNCHANGED <<now, options, constructed, poison, sequential,
                   pProcessing, pState, pPending, writeQueue, crashed, decoded,
                   signalled, fatal, sawLog, addCalls, pushLog, batchLog,
                   chunkLog, evicted, lastAdd, acceptCalls, tickLog>>

(* DataEngine.cleanup() called by the owner of the engine (once: the       *)
(* engine is not cleaned up again after it was stopped).                   *)
EngineCleanup ==
    /\ ~crashed
    /\ timer
    /\ EngineCleanupBody(session, activeStreams)
    /\ UNCHANGED <<now, options, constructed, poison, sequential,
                   pProcessing, pState, pPending, writeQueue, promise, crashed, decoded,
                   signalled, fatal, sawLog, addCalls, pushLog, batchLog,
                   chunkLog, evicted, lastAdd, acceptCalls, tickLog>>

(***************************************************************************)
(* The source decodes its next record; it passes the errorHandler and is   *)
(* written to the processor: StreamProcessor._transform.                   *)
(***************************************************************************)
CanSignal(s) == ~crashed /\ Live(s) /\ signalled[s] = "none"

(* A faulty _transform: it starts the batch two records late.              *)
Transform_LateThreshold(rec) ==
    LET buf == Append(buffer, rec)
    IN  /\ acceptCalls' = [acceptCalls EXCEPT ![IdOf(rec)] = @ + 1]
        /\ IF Len(buf) >= options.batchSize + 2 /\ ~pProcessing
           THEN PushBatch(buf, "transform")
           ELSE /\ buffer' = buf
                /\ UNCHANGED <<pProcessing, pPending, windows, evicted,
                               lastCleanup, tickQueue, addCalls, pushLog,
                               batchLog, chunkLog, lastAdd>>

(* StreamProcessor._transform(chunk): buffer the record; at the threshold,  *)
(* processBatch (which returns at once while a batch is in flight).        *)
Transform(rec) ==
    LET buf == Append(buffer, rec)
    IN  /\ acceptCalls' = [acceptCalls EXCEPT ![IdOf(rec)] = @ + 1]
        /\ IF (Len(buf) >= options.batchSize \/ Len(buf) >= highWaterMark)
              /\ ~pProcessing
           THEN PushBatch(buf, "transform")
           ELSE /\ buffer' = buf
                /\ UNCHANGED <<pProcessing, pPending, windows, evicted,
                               lastCleanup, tickQueue, addCalls, pushLog,
                               batchLog, chunkLog, lastAdd>>

(* The source s, which holds `limit` records, decodes its next one and the *)
(* pipe writes it to the processor: _transform runs at once when no write  *)
(* is in flight, and the stream queues the record otherwise.               *)
DecodeUpTo(s, limit) ==
    /\ CanSignal(s)
    /\ decoded[s] < limit
    /\ pState = "open"
    /\ decoded' = [decoded EXCEPT ![s] = @ + 1]
    /\ IF pPending = "none"
       THEN /\ Transform(SourceRecord(s, decoded[s] + 1))
            /\ UNCHANGED writeQueue
       ELSE /\ writeQueue' = Append(writeQueue, SourceRecord(s, decoded[s] + 1))
            /\ UNCHANGED <<buffer, pProcessing, pPending, windows, evicted,
                           lastCleanup, tickQueue, addCalls, pushLog,
                           batchLog, chunkLog, lastAdd, acceptCalls>>
    /\ UNCHANGED <<now, options, constructed, poison, sequential,
                   activeStreams, pState, procListeners, timer, nextFire,
                   aggProcessing, aggListeners, engVars, signalled, fatal,
                   sawLog, emitted, tickLog>>

Decode(s) == DecodeUpTo(s, MaxRecs)

(* A record written after another source ended the shared processor: the   *)
(* write fails with 'write after end', the processor emits 'error', and    *)
(* the error listener of every processFile call runs cleanup and rejects.  *)
DecodeAfterEnd(s) ==
    /\ CanSignal(s)
    /\ decoded[s] < MaxRecs
    /\ pState = "ending"
    /\ decoded' = [decoded EXCEPT ![s] = @ + 1]
    /\ SessionCleanup(procListeners)
    /\ promise' = Reject(promise, procListeners)
    /\ fatal' = fatal \cup procListeners
    /\ UNCHANGED <<now, options, constructed, poison, sequential,
                   pProcessing, pPending, crashed, signalled, addCalls,
                   pushLog, batchLog, chunkLog, evicted, lastAdd,
                   acceptCalls, tickLog>>

(* A record written to the destroyed processor is dropped.                 *)
DecodeDropped(s) ==
    /\ CanSignal(s)
    /\ decoded[s] < MaxRecs
    /\ pState = "destroyed"
    /\ decoded' = [decoded EXCEPT ![s] = @ + 1]
    /\ UNCHANGED <<now, options, constructed, poison, sequential, procVars,
                   aggVars, engVars, signalled, fatal, sawLog, addCalls,
                   pushLog, batchLog, chunkLog, evicted, lastAdd,
                   acceptCalls, emitted, tickLog>>

(* parser.on('error'): the decoder reports a decode error.                 *)
DecodeError(s) ==
    /\ CanSignal(s)
    /\ signalled' = [signalled EXCEPT ![s] = "error"]
    /\ SessionCleanup({s})
    /\ promise' = Reject(promise, {s})
    /\ UNCHANGED <<now, options, constructed, poison, sequential,
                   pProcessing, pPending, crashed, decoded, fatal, addCalls,
                   pushLog, batchLog, chunkLog, evicted, lastAdd,
                   acceptCalls, tickLog>>

(* errorHandler.on('error'): the validation Transform rejects a chunk.     *)
ValidationError(s) ==
    /\ CanSignal(s)
    /\ signalled' = [signalled EXCEPT ![s] = "error"]
    /\ SessionCleanup({s})
    /\ promise' = Reject(promise, {s})
    /\ UNCHANGED <<now, options, constructed, poison, sequential,
                   pProcessing, pPending, crashed, decoded, fatal, addCalls,
                   pushLog, batchLog, chunkLog, evicted, lastAdd,
                   acceptCalls, tickLog>>

(* The file read stream emits 'error' when the file cannot be opened: no   *)
(* listener is attached to it, so the event is unhandled and the process   *)
(* dies; its 'exit' hook runs StreamProcessor.cleanup().                   *)
SourceReadError(s) ==
    /\ CanSignal(s)
    /\ decoded[s] = 0
    /\ signalled' = [signalled EXCEPT ![s] = "readError"]
    /\ crashed' = TRUE
    /\ ProcessorCleanup(session, activeStreams)
    /\ UNCHANGED <<now, options, constructed, poison, sequential,
                   pProcessing, pState, pPending, writeQueue, aggVars, results, promise,
                   decoded, fatal, sawLog, addCalls, pushLog, batchLog,
                   chunkLog, evicted, lastAdd, acceptCalls, emitted, tickLog>>

(***************************************************************************)
(* The processor emits 'end': the 'end' listener of every processFile call *)
(* resolves its promise; having ended and finished, the stream destroys    *)
(* itself, and _destroy runs StreamProcessor.cleanup().                    *)
(***************************************************************************)
EndEmitted(p, L) == Resolve(p, L)

ProcessorEnd(sess, tracked) ==
    /\ promise' = EndEmitted(promise, procListeners)
    /\ pState' = "destroyed"
    /\ ProcessorCleanup(sess, tracked)

(* A faulty flush: it ends the stream without draining the buffer.         *)
Flush_SkipsRemainder(buf, sess, tracked) ==
    /\ ProcessorEnd(sess, tracked)
    /\ pProcessing' = FALSE
    /\ pPending' = "none"
    /\ UNCHANGED <<windows, evicted, lastCleanup, tickQueue, addCalls,
                   pushLog, batchLog, chunkLog, lastAdd>>

(* StreamProcessor._flush with the buffer `buf`, run once the writable     *)
(* side has ended and no write is in flight or queued: with records        *)
(* buffered, processBatch drains one batch and its callback flushes again; *)
(* with an empty buffer the callback ends the stream.                      *)
Flush(buf, sess, tracked) ==
    IF buf = <<>>
    THEN /\ ProcessorEnd(sess, tracked)
         /\ pProcessing' = FALSE
         /\ pPending' = "none"
         /\ UNCHANGED <<windows, evicted, lastCleanup, tickQueue, addCalls,
                        pushLog, batchLog, chunkLog, lastAdd>>
    ELSE /\ pState' = "ending"
         /\ session' = sess
         /\ activeStreams' = tracked
         /\ PushBatch(buf, "flush")
         /\ UNCHANGED <<procListeners, promise>>

(* The source signals end-of-input: parser and errorHandler emit 'end'     *)
(* (addStream's listener untracks them), and the pipe ends the shared      *)
(* processor. _flush runs at once when no write is in flight, and after    *)
(* the callback of the write in flight otherwise.                          *)
SourceEnd(s) ==
    /\ CanSignal(s)
    /\ signalled' = [signalled EXCEPT ![s] = "end"]
    /\ LET sess == [h \in Handles |-> IF h \in HandlesOf(s) THEN "ended" ELSE session[h]]
           tracked == activeStreams \ HandlesOf(s)
       IN  IF pState = "open" /\ pPending = "none"
           THEN Flush(buffer, sess, tracked)
           ELSE /\ pState' = (IF pState = "open" THEN "ending" ELSE pState)
                /\ session' = sess
                /\ activeStreams' = tracked
                /\ UNCHANGED <<buffer, pProcessing, pPending, procListeners,
                               windows, evicted, lastCleanup, tickQueue,
                               addCalls, pushLog, batchLog, chunkLog,
                               lastAdd, promise>>
    /\ UNCHANGED <<now, options, constructed, poison, sequential, writeQueue,
                   timer, nextFire, aggProcessing, aggListeners, results,
                   crashed, decoded, fatal, sawLog, acceptCalls, emitted,
                   tickLog>>

(* A faulty clearBuffer: it hands over the first queued record and drops   *)
(* the others.                                                             *)
Drain_DropsRest(buf, queue, batchSize) ==
    IF queue = <<>>
    THEN [buffer |-> buf, queue |-> <<>>, taken |-> <<>>, batch |-> FALSE]
    ELSE [buffer |-> Append(buf, Head(queue)), queue |-> <<>>,
          taken |-> <<Head(queue)>>,
          batch |-> (Len(buf) + 1 >= batchSize \/ Len(buf) + 1 >= highWaterMark)]

(* The stream's clearBuffer: the queued records are handed to _transform   *)
(* one after the other until one of them starts a batch (its write stays   *)
(* in flight) or the queue is empty. `taken` are the records handed over.  *)
RECURSIVE Drain(_, _, _)
Drain(buf, queue, batchSize) ==
    IF queue = <<>>
    THEN [buffer |-> buf, queue |-> <<>>, taken |-> <<>>, batch |-> FALSE]
    ELSE LET held == Append(buf, Head(queue))
         IN  IF Len(held) >= batchSize \/ Len(held) >= highWaterMark
             THEN [buffer |-> held, queue |-> Tail(queue),
                   taken |-> <<Head(queue)>>, batch |-> TRUE]
             ELSE LET d == Drain(held, Tail(queue), batchSize)
                  IN  [d EXCEPT !.taken = <<Head(queue)>> \o @]

(* The continuation of processBatch after its await: the finally block     *)
(* clears the flag and calls the callback. The callback of _flush flushes  *)
(* again while the buffer is not empty. The callback of a write hands the  *)
(* queued records to _transform; when that leaves no write in flight, the  *)
(* ended stream runs _flush, and the open one is idle again.               *)
BatchDone ==
    /\ ~crashed
    /\ pPending # "none"
    /\ IF pPending = "flush" /\ buffer # <<>>
       THEN /\ PushBatch(buffer, "flush")
            /\ UNCHANGED <<pState, activeStreams, procListeners, session,
                           promise, writeQueue, acceptCalls>>
       ELSE LET d == Drain(buffer, writeQueue, options.batchSize)
            IN  /\ writeQueue' = d.queue
                /\ acceptCalls' = [i \in RecIds |->
                        acceptCalls[i] + Cardinality({j \in 1..Len(d.taken) :
                                                        IdOf(d.taken[j]) = i})]
                /\ IF d.batch
                   THEN /\ PushBatch(d.buffer, "transform")
                        /\ UNCHANGED <<pState, activeStreams, procListeners,
                                       session, promise>>
                   ELSE IF pState = "ending"
                   THEN Flush(d.buffer, session, activeStreams)
                   ELSE /\ buffer' = d.buffer
                        /\ pProcessing' = FALSE
                        /\ pPending' = "none"
                        /\ UNCHANGED <<pState, activeStreams, procListeners,
                                       session, promise, windows, evicted,
                                       lastCleanup, tickQueue, addCalls,
                                       pushLog, batchLog, chunkLog, lastAdd>>
    /\ UNCHANGED <<now, options, constructed, poison, sequential, timer,
                   nextFire, aggProcessing, aggListeners, results, crashed,
                   decoded, signalled, fatal, sawLog, emitted, tickLog>>

(***************************************************************************)
(* WindowAggregator: the interval timer and processWindows.                *)
(***************************************************************************)
QueueOf(keys) ==
    [i \in 1..Len(keys) |-> [startTime |-> keys[i], attached |-> TRUE, records |-> <<>>]]

EntryRecords(e) == IF e.attached THEN windows[e.startTime] ELSE e.records

(* A faulty handler: it puts the result at the front of the log.           *)
handleAggregationResult_Unshift(log, ev) == <<ev>> \o log

(* DataEngine.handleAggregationResult                                      *)
handleAggregationResult(log, ev) == Append(log, ev)

(* A faulty loop without its try/catch: the exception of a throwing        *)
(* subscriber leaves the loop, and the windows not yet visited are skipped.*)
RestOfTick_Propagates(queue) ==
    IF "thrower" \in aggListeners THEN <<>> ELSE Tail(queue)

(* The windows left to the loop of processWindows once it has visited the  *)
(* head of `queue`: processWindow logs and rethrows what emit threw, the   *)
(* loop's catch logs it, and the loop goes on with the next window.        *)
RestOfTick(queue) == Tail(queue)

(* A faulty emit: the engine's handler is called although its             *)
(* subscription was removed.                                               *)
ProcessWindow_Resubscribed(e, log) ==
    LET recs == EntryRecords(e)
        ev == AggregationEvent(e.startTime, recs)
    IN  IF Len(recs) = 0
        THEN UNCHANGED <<results, emitted>> /\ tickLog' = log
        ELSE /\ results' = handleAggregationResult(results, ev)
             /\ emitted' = Append(emitted, ev)
             /\ tickLog' = Append(log, ev)

(* processWindow for the entry e, then the loop's await: emit the event to *)
(* the subscribers attached now.  The engine subscribed first, so emit     *)
(* calls its handler before a later subscriber ("thrower") can throw.      *)
ProcessWindow(e, log) ==
    LET recs == EntryRecords(e)
        ev == AggregationEvent(e.startTime, recs)
    IN  IF Len(recs) = 0 \/ "engine" \notin aggListeners
        THEN UNCHANGED <<results, emitted>> /\ tickLog' = log
        ELSE /\ results' = handleAggregationResult(results, ev)
             /\ emitted' = Append(emitted, ev)
             /\ tickLog' = Append(log, ev)

(* A faulty processWindows without the in-progress check.                   *)
TickFire_Reentrant ==
    /\ ~crashed
    /\ timer
    /\ now >= nextFire
    /\ nextFire' = nextFire + options.slidingInterval
    /\ LET keys == windowsToProcess(windows, options, now)
       IN  IF keys = <<>>
           THEN UNCHANGED <<aggProcessing, tickQueue, results, emitted,
                            tickLog>>
           ELSE /\ aggProcessing' = TRUE
                /\ tickQueue' = RestOfTick(QueueOf(keys))
                /\ ProcessWindow(Head(QueueOf(keys)), <<>>)
    /\ UNCHANGED <<now, options, constructed, poison, sequential, procVars,
                   windows, evicted, lastCleanup, timer, aggListeners,
                   promise, session, crashed, decoded, signalled, fatal,
                   sawLog, addCalls, pushLog, batchLog, chunkLog, lastAdd,
                   acceptCalls>>

(* The timer fires: processWindows runs up to its first await.             *)
TickFire ==
    /\ ~crashed
    /\ timer
    /\ now >= nextFire
    /\ nextFire' = nextFire + options.slidingInterval
    /\ LET keys == windowsToProcess(windows, options, now)
       IN  IF aggProcessing \/ keys = <<>>
           THEN UNCHANGED <<aggProcessing, tickQueue, results, emitted,
                            tickLog>>
           ELSE /\ aggProcessing' = TRUE
                /\ tickQueue' = RestOfTick(QueueOf(keys))
                /\ ProcessWindow(Head(QueueOf(keys)), <<>>)
    /\ UNCHANGED <<now, options, constructed, poison, sequential, procVars,
                   windows, evicted, lastCleanup, timer, aggListeners,
                   promise, session, crashed, decoded, signalled, fatal,
                   sawLog, addCalls, pushLog, batchLog, chunkLog, lastAdd,
                   acceptCalls>>

(* The loop resumes after an await and visits the next window.             *)
TickStep ==
    /\ ~crashed
    /\ aggProcessing
    /\ tickQueue # <<>>
    /\ tickQueue' = RestOfTick(tickQueue)
    /\ ProcessWindow(Head(tickQueue), tickLog)
    /\ UNCHANGED <<now, options, constructed, poison, sequential, procVars,
                   windows, evicted, lastCleanup, timer, nextFire,
                   aggProcessing, aggListeners, promise, session, crashed,
                   decoded, signalled, fatal, sawLog, addCalls, pushLog,
                   batchLog, chunkLog, lastAdd, acceptCalls>>

(* The loop is over: the finally block clears the flag.                    *)
TickEnd ==
    /\ ~crashed
    /\ aggProcessing
    /\ tickQueue = <<>>
    /\ aggProcessing' = FALSE
    /\ UNCHANGED <<now, options, constructed, poison, procVars, windows,
                   evicted, lastCleanup, timer, nextFire, tickQueue,
                   aggListeners, engVars, histVars>>

(* Time passes, up to the time `limit`.                                    *)
AdvanceTimeTo(limit) ==
    /\ ~crashed
    /\ now < limit
    /\ now' = now + 1
    /\ UNCHANGED <<options, constructed, poison, procVars, aggVars, engVars,
                   histVars>>

AdvanceTime == AdvanceTimeTo(StartTime + MaxTime)

Next ==
    \/ \E s \in Src : ProcessFile(s)
    \/ \E s \in Src : ProcessFileThrows(s)
    \/ EngineCleanup
    \/ \E s \in Src : Decode(s)
    \/ \E s \in Src : DecodeAfterEnd(s)
    \/ \E s \in Src : DecodeDropped(s)
    \/ \E s \in Src : DecodeError(s)
    \/ \E s \in Src : ValidationError(s)
    \/ \E s \in Src : SourceReadError(s)
    \/ \E s \in Src : SourceEnd(s)
    \/ BatchDone
    \/ TickFire
    \/ TickStep
    \/ TickEnd
    \/ AdvanceTime

Spec == Init /\ [][Next]_vars

(* The event loop runs every continuation it holds: the processBatch       *)
(* continuation and the steps of a tick in flight.                         *)
FairSpec ==
    Spec /\ WF_vars(BatchDone) /\ WF_vars(TickStep) /\ WF_vars(TickEnd)

(***************************************************************************)
(* The engine fed by valid sources only: no source reports an error, no    *)
(* file is missing, and the owner does not call cleanup().                 *)
(***************************************************************************)
NextValid ==
    \/ \E s \in Src : ProcessFile(s)
    \/ \E s \in Src : Decode(s)
    \/ \E s \in Src : DecodeAfterEnd(s)
    \/ \E s \in Src : DecodeDropped(s)
    \/ \E s \in Src : SourceEnd(s)
    \/ BatchDone
    \/ TickFire
    \/ TickStep
    \/ TickEnd
    \/ AdvanceTime

ValidSpec == Init /\ [][NextValid]_vars

FairValidSpec ==
    ValidSpec /\ WF_vars(BatchDone) /\ WF_vars(TickStep) /\ WF_vars(TickEnd)

(***************************************************************************)
(* The engine used for one valid source after the other: processFile is    *)
(* called while no earlier call is pending.                                *)
(***************************************************************************)
SequentialStart(s) ==
    /\ \A o \in Src \ {s} : promise[o] # "pending"
    /\ ProcessFile(s)

NextSequential ==
    \/ \E s \in Src : SequentialStart(s)
    \/ \E s \in Src : Decode(s)
    \/ \E s \in Src : DecodeDropped(s)
    \/ \E s \in Src : SourceEnd(s)
    \/ BatchDone
    \/ TickFire
    \/ TickStep
    \/ TickEnd
    \/ AdvanceTime

SequentialSpec == Init /\ [][NextSequential]_vars

FairSequentialSpec ==
    SequentialSpec /\ WF_vars(BatchDone) /\ WF_vars(TickStep) /\ WF_vars(TickEnd)

(***************************************************************************)
(* Construction. new DataEngine(options) builds the StreamProcessor and    *)
(* the WindowAggregator from the options it is given and subscribes to the *)
(* aggregator; none of the three constructors inspects the options.        *)
(***************************************************************************)
AnyOptions ==
    {[batchSize |-> b, windowSize |-> w, slidingInterval |-> si] :
        b \in (-MaxOption)..MaxOption, w \in (-MaxOption)..MaxOption,
        si \in (-MaxOption)..MaxOption}

(* The fields before the constructor has assigned them.                    *)
Unset == [batchSize |-> 0, windowSize |-> 0, slidingInterval |-> 0]

(* setInterval(callback, delay): a delay below 1 is taken as 1.            *)
TimerDelay(d) == IF d < 1 THEN 1 ELSE d

InitCtor ==
    /\ now = StartTime
    /\ options = Unset
    /\ constructed = FALSE
    /\ buffer = <<>>
    /\ pProcessing = FALSE
    /\ activeStreams = {}
    /\ pState = "open"
    /\ pPending = "none"
    /\ procListeners = {}
    /\ windows = NoWindows
    /\ lastCleanup = StartTime
    /\ timer = FALSE
    /\ nextFire = StartTime
    /\ aggProcessing = FALSE
    /\ tickQueue = <<>>
    /\ aggListeners = {}
    /\ results = <<>>
    /\ promise = [s \in Src |-> "none"]
    /\ session = [h \in Handles |-> "none"]
    /\ crashed = FALSE
    /\ decoded = [s \in Src |-> 0]
    /\ signalled = [s \in Src |-> "none"]
    /\ fatal = {}
    /\ sawLog = FALSE
    /\ addCalls = [i \in RecIds |-> 0]
    /\ pushLog = <<>>
    /\ batchLog = <<>>
    /\ chunkLog = <<>>
    /\ evicted = {}
    /\ lastAdd = StartTime
    /\ sequential = [s \in Src |-> FALSE]
    /\ acceptCalls = [i \in RecIds |-> 0]
    /\ emitted = <<>>
    /\ tickLog = <<>>
    /\ writeQueue = <<>>
    /\ poison = {}

(* new DataEngine(opt)                                                     *)
Construct(opt) ==
    /\ ~constructed
    /\ constructed' = TRUE
    /\ options' = opt
    /\ buffer' = <<>>
    /\ activeStreams' = {}
    /\ pProcessing' = FALSE
    /\ windows' = NoWindows
    /\ lastCleanup' = now
    /\ aggProcessing' = FALSE
    /\ timer' = TRUE
    /\ nextFire' = now + TimerDelay(opt.slidingInterval)
    /\ aggListeners' = {"engine"}
    /\ results' = <<>>
    /\ UNCHANGED <<now, poison, pState, pPending, writeQueue, procListeners,
                   tickQueue, promise, session, crashed, histVars>>

NextCtor == \E opt \in AnyOptions : Construct(opt)

CtorSpec == InitCtor /\ [][NextCtor]_vars

(***************************************************************************)
(* The record batcher fed by one source from its first record to its       *)
(* end-of-input.                                                           *)
(***************************************************************************)
BatcherOptionChoices ==
    {[batchSize |-> b, windowSize |-> 1, slidingInterval |-> 1] : b \in 1..BMaxBatch}

InitBatcher == InitFor(BatcherOptionChoices) /\ NoFaults

BatcherStart == ProcessFile(1)
BatcherWrite == DecodeUpTo(1, BMaxRecs)
BatcherEnd == SourceEnd(1)

NextBatcher ==
    \/ BatcherStart
    \/ BatcherWrite
    \/ BatcherEnd
    \/ BatchDone
    \/ AdvanceTime

BatcherSpec == InitBatcher /\ [][NextBatcher]_vars

FairBatcherSpec == BatcherSpec /\ WF_vars(BatchDone)

(***************************************************************************)
(* The record batcher fed by one source of which at most one record cannot *)
(* be stamped.                                                             *)
(***************************************************************************)
FaultChoices == {{}} \cup {{RecId(1, k)} : k \in 1..BMaxRecs}

InitFault == InitFor(BatcherOptionChoices) /\ poison \in FaultChoices

FaultSpec == InitFault /\ [][NextBatcher]_vars

(***************************************************************************)
(* The window aggregator driven by direct addRecord calls and its timer.   *)
(***************************************************************************)
WindowOptionChoices ==
    {[batchSize |-> 1, windowSize |-> w, slidingInterval |-> si] :
        w \in 1..WMaxWindow, si \in 1..WMaxSlide}

InitWindow == InitFor(WindowOptionChoices) /\ NoFaults

(* aggregator.addRecord(record) at the time `now`, for a caller that holds *)
(* `limit` records.                                                        *)
AddRecordUpTo(limit) ==
    /\ ~crashed
    /\ decoded[1] < limit
    /\ LET rec == SourceRecord(1, decoded[1] + 1)
           w == addRecordWindows(windows, options, now, lastCleanup, rec)
       IN  /\ windows' = w
           /\ lastCleanup' = addRecordLastCleanup(options, now, lastCleanup)
           /\ tickQueue' = Detach(tickQueue, windows, w)
           /\ decoded' = [decoded EXCEPT ![1] = @ + 1]
           /\ addCalls' = [addCalls EXCEPT ![IdOf(rec)] = @ + 1]
           /\ evicted' = evicted \cup EvictedKeys(windows, options, now, lastCleanup)
           /\ lastAdd' = now
    /\ UNCHANGED <<now, options, constructed, poison, procVars, timer,
                   nextFire, aggProcessing, aggListeners, engVars, signalled,
                   fatal, sawLog, pushLog, batchLog, chunkLog,
                   sequential, acceptCalls, emitted, tickLog>>

AddRecord == AddRecordUpTo(WMaxRecs)

WindowAdvanceTime == AdvanceTimeTo(StartTime + WMaxTime)

(* aggregator.stop(), called once by the owner of the aggregator.          *)
Stop ==
    /\ ~crashed
    /\ timer
    /\ AggregatorStop
    /\ UNCHANGED <<now, options, constructed, poison, procVars, engVars,
                   histVars>>

NextWindow ==
    \/ AddRecord
    \/ WindowAdvanceTime
    \/ TickFire
    \/ TickStep
    \/ TickEnd
    \/ Stop

WindowSpec == InitWindow /\ [][NextWindow]_vars

(***************************************************************************)
(* The aggregator with a second subscriber whose handler always throws,    *)
(* subscribed right after construction (after the first subscriber).       *)
(***************************************************************************)
SubscribeThrower ==
    /\ ~crashed
    /\ timer
    /\ now = StartTime
    /\ "thrower" \notin aggListeners
    /\ aggListeners' = aggListeners \cup {"thrower"}
    /\ UNCHANGED <<now, options, constructed, poison, procVars, windows,
                   lastCleanup, timer, nextFire, aggProcessing, tickQueue,
                   engVars, histVars>>

NextThrower ==
    \/ SubscribeThrower
    \/ AddRecord
    \/ WindowAdvanceTime
    \/ TickFire
    \/ TickStep
    \/ TickEnd
    \/ Stop

ThrowerSpec == InitWindow /\ [][NextThrower]_vars

(***************************************************************************)
(* The aggregator under a steady input: successive addRecord calls are at  *)
(* most slidingInterval apart, windowSize >= slidingInterval, and the      *)
(* timer fires on time (a due tick runs, and runs to its end, before the   *)
(* clock moves on).                                                        *)
(***************************************************************************)
SteadyOptionChoices ==
    {o \in {[batchSize |-> 1, windowSize |-> w, slidingInterval |-> si] :
                si \in 1..SMaxSlide, w \in 1..SMaxSlide} :
        o.windowSize >= o.slidingInterval}

InitSteady == InitFor(SteadyOptionChoices) /\ NoFaults

SteadyAddRecord == AddRecordUpTo(SMaxRecs)

SteadyAdvanceTime ==
    /\ now < nextFire
    /\ ~aggProcessing
    /\ decoded[1] \in {0, SMaxRecs} \/ now + 1 - lastAdd <= options.slidingInterval
    /\ AdvanceTimeTo(StartTime + SMaxTime)

NextSteady ==
    \/ SteadyAddRecord
    \/ SteadyAdvanceTime
    \/ TickFire
    \/ TickStep
    \/ TickEnd

SteadySpec == InitSteady /\ [][NextSteady]_vars

(***************************************************************************)
(* The aggregator fed with records that carry textual and numeric fields,  *)
(* by direct addRecord calls, and its timer.  The samples are the records  *)
(* of the aggregation test, with and without an id, a record whose value   *)
(* is the text "20", a stamped record, and a record whose only value holds *)
(* the separators of the group key.                                        *)
(***************************************************************************)
SampleRecords ==
    {<<StrField("category", "A"), NumField("value", 10)>>,
     <<StrField("category", "A"), NumField("value", 20)>>,
     <<StrField("category", "B"), NumField("value", 30)>>,
     <<NumField("id", 1), StrField("category", "A"), NumField("value", 10)>>,
     <<NumField("id", 2), StrField("category", "A"), NumField("value", 20)>>,
     <<NumField("id", 3), StrField("category", "B"), NumField("value", 30)>>,
     <<StrField("category", "A"), StrField("value", "20")>>,
     <<StrField("category", "A"), NumField("value", 10), NumField("timestamp", 7)>>,
     <<StrField("category", "A|value:10")>>}

GroupOptionChoices == {[batchSize |-> 1, windowSize |-> 2, slidingInterval |-> 1]}

InitGroup == InitFor(GroupOptionChoices) /\ NoFaults

(* aggregator.addRecord(rec) at the time `now`.                            *)
AddSample(rec) ==
    /\ ~crashed
    /\ decoded[1] < GMaxRecs
    /\ LET w == addRecordWindows(windows, options, now, lastCleanup, rec)
       IN  /\ windows' = w
           /\ lastCleanup' = addRecordLastCleanup(options, now, lastCleanup)
           /\ tickQueue' = Detach(tickQueue, windows, w)
           /\ decoded' = [decoded EXCEPT ![1] = @ + 1]
           /\ evicted' = evicted \cup EvictedKeys(windows, options, now, lastCleanup)
           /\ lastAdd' = now
    /\ UNCHANGED <<now, options, constructed, poison, procVars, timer,
                   nextFire, aggProcessing, aggListeners, engVars, signalled,
                   fatal, sawLog, addCalls, pushLog, batchLog, chunkLog,
                   sequential, acceptCalls, emitted, tickLog>>

GroupAdvanceTime == AdvanceTimeTo(StartTime + GMaxTime)

NextGroup ==
    \/ \E rec \in SampleRecords : AddSample(rec)
    \/ GroupAdvanceTime
    \/ TickFire
    \/ TickStep
    \/ TickEnd

GroupSpec == InitGroup /\ [][NextGroup]_vars

TypeOK ==
    /\ now \in StartTime..(StartTime + MaxTime)
    /\ constructed
    /\ pState \in {"open", "ending", "destroyed"}
    /\ pPending \in {"none", "transform", "flush"}
    /\ procListeners \subseteq Src
    /\ activeStreams \subseteq Handles
    /\ \A s \in Src : promise[s] \in {"none", "pending", "resolved", "rejected"}
    /\ \A h \in Handles : session[h] \in {"none", "live", "ended", "destroyed"}
    /\ \A s \in Src : Live(s) => s \in procListeners /\ HandlesOf(s) \subseteq activeStreams
    /\ pProcessing <=> pPending # "none"
    /\ writeQueue # <<>> => pPending = "transform" /\ pState # "destroyed"

(***************************************************************************)
(* Properties.                                                             *)
(***************************************************************************)
IsPrefix(a, b) == Len(a) <= Len(b) /\ SubSeq(b, 1, Len(a)) = a

Settled(s) == promise[s] \in {"resolved", "rejected"}

(* The source s fails in this step: its parser or errorHandler emits       *)
(* 'error' and the error listener tears the session down.                  *)
FailsNow(s) == signalled[s] = "none" /\ signalled'[s] = "error"

BufferedOf(buf, s) == SelectSeq(buf, LAMBDA r : SrcOf(r) = s)

(* C1: when the session of source a is torn down on failure while source b *)
(* is still being processed, b's tracked streams are not destroyed, b's    *)
(* buffered records are not discarded, b's listeners stay attached and the *)
(* batcher stays usable.                                                   *)
C1_FailureIsolation ==
    [][\A a, b \in Src :
        (a # b /\ FailsNow(a) /\ Live(b)) =>
            /\ \A h \in HandlesOf(b) : session'[h] = "live" /\ h \in activeStreams'
            /\ BufferedOf(buffer', b) = BufferedOf(buffer, b)
            /\ b \in procListeners'
            /\ pState' = pState]_vars

(* C2: once the source of a processFile call has signalled its terminal    *)
(* event (end-of-input or an error), the promise of that call eventually   *)
(* settles, as long as the process lives.                                  *)
C2_EventuallySettles ==
    \A s \in Src : (signalled[s] \in {"end", "error"}) ~> (Settled(s) \/ crashed)

(* C3: the promise of a source is resolved only after that source has      *)
(* signalled end-of-input.                                                 *)
C3_ResolvesOnlyOnOwnEnd ==
    \A s \in Src : promise[s] = "resolved" => signalled[s] = "end"

InBuffer(i) == \E j \in 1..Len(buffer) : IdOf(buffer[j]) = i
InQueue(i) == \E j \in 1..Len(writeQueue) : IdOf(writeQueue[j]) = i

(* C4: every decoded record is accepted by the batcher exactly once (not   *)
(* yet while the stream holds it behind a write in flight) and causes      *)
(* exactly one addRecord call (none while the record is still held or      *)
(* buffered), however many processFile calls were made on the engine.      *)
C4_OneAddPerRecord ==
    \A s \in Src : \A k \in 1..decoded[s] :
        /\ acceptCalls[RecId(s, k)] = (IF InQueue(RecId(s, k)) THEN 0 ELSE 1)
        /\ addCalls[RecId(s, k)] =
                (IF InBuffer(RecId(s, k)) \/ InQueue(RecId(s, k)) THEN 0 ELSE 1)

(* C5: a source that reaches end-of-input without a decoded record does    *)
(* not complete successfully.                                              *)
C5_EmptySourceRejects ==
    \A s \in Src : (signalled[s] = "end" /\ decoded[s] = 0) => promise[s] # "resolved"

(* C6: after a source failure (the source reports an error, the validation *)
(* step rejects a record, or the batcher stream reports a fatal error) the *)
(* promise of that source is rejected and its streams are released.        *)
Released(s) ==
    /\ \A h \in HandlesOf(s) : session[h] \in {"ended", "destroyed"}
    /\ HandlesOf(s) \cap activeStreams = {}

C6_FailureRejects ==
    \A s \in Src :
        (signalled[s] \in {"error", "readError"} \/ s \in fatal) =>
            promise[s] = "rejected" /\ Released(s)

(* C7: when a source fails, every record decoded before the failure has    *)
(* been added to the aggregator.                                           *)
C7_DecodedRecordsKept ==
    \A s \in Src : signalled[s] = "error" =>
        \A k \in 1..decoded[s] : addCalls[RecId(s, k)] >= 1

(* C8: the teardown of a failed source's session (the cleanup closure run  *)
(* by an error listener) leaves the results log and the aggregator's       *)
(* windows unchanged and leaves the aggregator's timer and the engine's    *)
(* subscription in place.                                                  *)
C8_TeardownFrame ==
    [][((\E s \in Src : FailsNow(s)) \/ fatal' # fatal) =>
            /\ results' = results
            /\ windows' = windows
            /\ timer' = timer
            /\ nextFire' = nextFire
            /\ aggListeners' = aggListeners]_vars

(* C8 witness: a source has failed and its session was torn down while the *)
(* log and the windows were not empty; the aggregator still holds windows  *)
(* and results and is still running with the engine subscribed.            *)
C8_Witness ==
    /\ sawLog
    /\ \E s \in Src : signalled[s] = "error"
    /\ results # <<>>
    /\ DOMAIN windows # {}
    /\ timer
    /\ "engine" \in aggListeners

(* C9: the results log only grows: every step other than cleanup() keeps   *)
(* the previous log as a prefix of the new one.                            *)
C9_LogOnlyGrows ==
    [][EngineCleanup \/ IsPrefix(results, results')]_vars

(* C10: getResults() is the sequence of events the aggregator has emitted  *)
(* since construction or the last cleanup, in emission order, each once;   *)
(* the events of one tick are pairwise distinct.                           *)
getResults == results

C10_ResultsAreEmissions ==
    /\ getResults = emitted
    /\ \A i, j \in 1..Len(tickLog) : i # j => tickLog[i] # tickLog[j]

(* C10 witness: one tick has delivered two events, both in the log.        *)
C10_Witness ==
    /\ Len(tickLog) >= 2
    /\ Len(getResults) >= 2
    /\ getResults[1] # getResults[2]

(* The number of entries of seq equal to x.                                *)
CountIn(seq, x) == Cardinality({i \in 1..Len(seq) : seq[i] = x})

(* C11: when a processFile call is made after an earlier call on the same  *)
(* engine has resolved, and both sources are valid and not empty, the      *)
(* later call resolves as well once its source has signalled end-of-input, *)
(* and its records have reached the aggregator.                            *)
C11_SequentialBothComplete ==
    \A a, b \in Src :
        (/\ a # b
         /\ sequential[b]
         /\ promise[a] = "resolved" /\ signalled[a] = "end" /\ decoded[a] >= 1
         /\ signalled[b] = "end" /\ decoded[b] >= 1)
        ~> (/\ promise[b] = "resolved"
            /\ \A k \in 1..decoded[b] : addCalls[RecId(b, k)] >= 1)

(* C12: when cleanup() returns, the batcher's buffer is empty and it       *)
(* tracks no stream, the aggregator holds no window and its timer is       *)
(* cancelled, and the results log is empty.                                *)
C12_CleanupPostcondition ==
    [][(EngineCleanup \/ \E s \in Src : ProcessFileThrows(s)) =>
            /\ buffer' = <<>>
            /\ activeStreams' = {}
            /\ DOMAIN windows' = {}
            /\ ~timer'
            /\ results' = <<>>]_vars

(* C12 witness: cleanup() has run on an engine no session of which was     *)
(* torn down before: a tick had delivered results, and a record that was   *)
(* waiting in the buffer is gone.                                          *)
C12_Witness ==
    /\ ~timer
    /\ getResults = <<>>
    /\ tickLog # <<>>
    /\ pState = "open"
    /\ fatal = {}
    /\ \A s \in Src : signalled[s] = "none" /\ promise[s] \in {"none", "pending"}
    /\ \E s \in Src : \E k \in 1..decoded[s] :
            /\ acceptCalls[RecId(s, k)] = 1
            /\ addCalls[RecId(s, k)] = 0
            /\ ~InBuffer(RecId(s, k))

(* C13: at the moment the promise of a source with at least one decoded    *)
(* record resolves, the results log holds at least one result.             *)
C13_ResultsAtResolve ==
    [][\A s \in Src :
        (promise[s] # "resolved" /\ promise'[s] = "resolved" /\ decoded[s] >= 1) =>
            results' # <<>>]_vars

(* C14: an engine exists only with a positive batchSize, windowSize and    *)
(* slidingInterval: construction with any other options fails.             *)
C14_InvalidOptionsRejected ==
    constructed =>
        /\ options.batchSize > 0
        /\ options.windowSize > 0
        /\ options.slidingInterval > 0

(* C15: no batch holds more than batchSize records, and once the input has *)
(* ended and the stream has finished, every input record was emitted       *)
(* exactly once and the batch sizes sum to the input length.               *)
C15_BatchesCoverInput ==
    /\ \A i \in 1..Len(batchLog) : batchLog[i] <= options.batchSize
    /\ promise[1] = "resolved" =>
            /\ \A k \in 1..decoded[1] : CountIn(pushLog, RecId(1, k)) = 1
            /\ Len(pushLog) = decoded[1]
            /\ SumSeq(batchLog) = decoded[1]

(* C15 witness: four records with batchSize 3 went through as a batch of 3 *)
(* and a batch of 1.                                                       *)
C15_Witness ==
    /\ promise[1] = "resolved"
    /\ options.batchSize = 3
    /\ decoded[1] = 4
    /\ batchLog = <<3, 1>>

(* C16: the batcher emits one downstream unit per batch: after the input   *)
(* of n records has ended, ceil(n / batchSize) units were emitted.         *)
C16_OneUnitPerBatch ==
    promise[1] = "resolved" => Len(pushLog) = CeilDiv(decoded[1], options.batchSize)

StoredIn(w, k, id) == k \in DOMAIN w /\ \E j \in 1..Len(w[k]) : IdOf(w[k][j]) = id

KeyRange == 0..(StartTime + WMaxTime)

(* C18: a record added at time t is stored in exactly the windows whose    *)
(* startTime is a multiple of slidingInterval with                         *)
(* 0 <= t - startTime < windowSize.                                        *)
C18_HalfOpenPlacement ==
    [][decoded'[1] = decoded[1] + 1 =>
        \A k \in KeyRange :
            StoredIn(windows', k, RecId(1, decoded[1] + 1)) <=>
                (/\ k % options.slidingInterval = 0
                 /\ 0 <= now - k
                 /\ now - k < options.windowSize)]_vars

(* C18 as the code has it: a record added at time t is stored in exactly   *)
(* the windows whose startTime is a multiple of slidingInterval with       *)
(* 0 <= t - startTime <= windowSize.                                       *)
C18_ClosedPlacement ==
    [][decoded'[1] = decoded[1] + 1 =>
        \A k \in KeyRange :
            StoredIn(windows', k, RecId(1, decoded[1] + 1)) <=>
                (/\ k % options.slidingInterval = 0
                 /\ 0 <= now - k
                 /\ now - k <= options.windowSize)]_vars

(* C18 witness: with slidingInterval 2 the record added last sits in the   *)
(* window that started exactly windowSize before it and in a younger one.  *)
C18_Witness ==
    /\ options.slidingInterval = 2
    /\ decoded[1] >= 1
    /\ \E k \in DOMAIN windows :
            /\ lastAdd - k = options.windowSize
            /\ StoredIn(windows, k, RecId(1, decoded[1]))
    /\ \E k \in DOMAIN windows :
            /\ lastAdd - k < options.windowSize
            /\ StoredIn(windows, k, RecId(1, decoded[1]))

(* C19: the startTime of every retained window and the timestamp of every  *)
(* emitted result are multiples of slidingInterval.                        *)
C19_AlignedStartTimes ==
    /\ \A k \in DOMAIN windows : k % options.slidingInterval = 0
    /\ \A i \in 1..Len(emitted) : emitted[i].timestamp % options.slidingInterval = 0
    /\ \A i \in 1..Len(getResults) : getResults[i].timestamp % options.slidingInterval = 0

(* C19 witness: with slidingInterval 2 a record was added at an odd time,  *)
(* windows are retained and a result was emitted.                          *)
C19_Witness ==
    /\ options.slidingInterval = 2
    /\ decoded[1] >= 1
    /\ lastAdd % 2 = 1
    /\ DOMAIN windows # {}
    /\ emitted # <<>>

(* C20: when no record has arrived for more than windowSize, a result      *)
(* emitted now carries no timestamp older than now - windowSize.           *)
C20_EvictedWindowsSilent ==
    [][(/\ Len(emitted') = Len(emitted) + 1
        /\ decoded[1] >= 1
        /\ now - lastAdd > options.windowSize) =>
            now - emitted'[Len(emitted')].timestamp <= options.windowSize]_vars

(***************************************************************************)
(* Grouping and statistics.                                                *)
(***************************************************************************)
(* The textual fields of a record, rendered like a group key.              *)
TextKey(rec) == getGroupKey(SelectSeq(rec, LAMBDA f : ~f.isNum))

(* The records of recs that agree with r on their textual fields.          *)
TextPeers(recs, r) == SelectSeq(recs, LAMBDA x : TextKey(x) = TextKey(r))

(* The data the next tick reports for the window keyed k.                  *)
WindowData(k) == AggregationEvent(k, windows[k]).data

(* C21: in every window, the records that agree on their textual fields    *)
(* form one group: the group of a record counts all of them, and its       *)
(* value statistics range over all their values.                           *)
C21_GroupsByTextualFields ==
    \A k \in DOMAIN windows : \A i \in 1..Len(windows[k]) :
        LET peers == TextPeers(windows[k], windows[k][i])
            group == WindowData(k)[getGroupKey(windows[k][i])]
            values == FieldValues(peers, "value")
        IN  /\ group.count = Len(peers)
            /\ "value" \in DOMAIN group.stats
            /\ group.stats["value"] =
                    [sum |-> SumSeq(values), avg |-> <<SumSeq(values), Len(values)>>,
                     max |-> MaxSeq(values), min |-> MinSeq(values)]

(* The field names occurring in the records, and the number of distinct    *)
(* values a field takes among them.                                        *)
FieldNames(recs) ==
    UNION {{recs[i][j].key : j \in 1..Len(recs[i])} : i \in 1..Len(recs)}

DistinctValues(recs, k) ==
    Cardinality({Render(FieldOf(recs[i], k)) : i \in {j \in 1..Len(recs) : HasField(recs[j], k)}})

(* C22: the data reported for a window maps every field name occurring in  *)
(* its records to the number of distinct values the field takes there.     *)
C22_DataCountsDistinctValues ==
    \A k \in DOMAIN windows :
        /\ DOMAIN WindowData(k) = FieldNames(windows[k])
        /\ \A f \in FieldNames(windows[k]) :
                WindowData(k)[f] = DistinctValues(windows[k], f)

(***************************************************************************)
(* The aggregator's life cycle and its emissions over time.                *)
(***************************************************************************)
(* C23: once stop() has returned, no aggregation event reaches a           *)
(* subscriber: the result log and the delivered events stay as they are,   *)
(* whatever the tick in flight, the timer or later addRecord calls do.     *)
C23_SilentAfterStop ==
    [][~timer => (emitted' = emitted /\ results' = results)]_vars

C23_Witness ==
    /\ ~timer
    /\ aggProcessing
    /\ tickQueue # <<>>
    /\ Len(EntryRecords(Head(tickQueue))) > 0
    /\ DOMAIN windows # {}

(* C24: under a steady input the timestamps of the delivered events form a *)
(* gap-free progression: every delivered timestamp but the latest is       *)
(* followed by the one slidingInterval later.                              *)
EmittedTimestamps == {emitted[i].timestamp : i \in 1..Len(emitted)}

C24_GapFreeTimestamps ==
    \A t \in EmittedTimestamps :
        (\E u \in EmittedTimestamps : u > t) =>
            t + options.slidingInterval \in EmittedTimestamps

(***************************************************************************)
(* The batcher's flush cycles.                                             *)
(***************************************************************************)
(* C25: every non-empty batch is cut into exactly 4 sub-chunks (one per    *)
(* record for a batch of fewer than 4) whose sizes differ by at most one   *)
(* and add up to the batch.                                                *)
C25_FourEvenChunks ==
    \A i \in 1..Len(chunkLog) :
        /\ Len(chunkLog[i]) = Min2(4, batchLog[i])
        /\ SumSeq(chunkLog[i]) = batchLog[i]
        /\ \A a, b \in 1..Len(chunkLog[i]) : chunkLog[i][a] - chunkLog[i][b] <= 1

(* The number of places that hold the record: the stream's write queue,    *)
(* the buffer, and the pushes made.                                        *)
Holdings(id) ==
    CountIn(pushLog, id) + (IF InBuffer(id) THEN 1 ELSE 0) + (IF InQueue(id) THEN 1 ELSE 0)

(* C26: a flush cycle is in progress exactly while its continuation is     *)
(* awaited; a record written meanwhile is held back, its write returns at  *)
(* once and starts no second cycle; and every written record is held or    *)
(* pushed exactly once, and pushed once the stream has ended.              *)
C26_SingleFlight ==
    /\ [](/\ pProcessing <=> pPending # "none"
          /\ writeQueue # <<>> => pProcessing
          /\ \A k \in 1..decoded[1] : Holdings(RecId(1, k)) = 1
          /\ promise[1] = "resolved" => buffer = <<>> /\ writeQueue = <<>>)
    /\ [][(pProcessing /\ decoded' # decoded) =>
            (/\ writeQueue' = Append(writeQueue, SourceRecord(1, decoded'[1]))
             /\ batchLog' = batchLog /\ pushLog' = pushLog /\ buffer' = buffer
             /\ pProcessing')]_vars

C26_Witness == pProcessing /\ Len(writeQueue) >= 2 /\ options.batchSize >= 2

(* C27: when a flush cycle begins, the buffer (the batch it takes and the  *)
(* records it leaves) holds at most batchSize + 1 records.                 *)
C27_BufferBoundAtFlush ==
    [][Len(batchLog') > Len(batchLog) =>
        Len(buffer') + batchLog'[Len(batchLog')] <= options.batchSize + 1]_vars

C27_Witness ==
    /\ pProcessing
    /\ options.batchSize >= 2
    /\ Len(batchLog) >= 2
    /\ batchLog[Len(batchLog)] = options.batchSize
    /\ writeQueue # <<>>

(* The k-th record of the source is the p-th of its batch; the chunk it    *)
(* falls in holds the positions lo..hi of the stream.                      *)
RECURSIVE SumTo(_, _)
SumTo(s, n) == IF n = 0 THEN 0 ELSE s[n] + SumTo(s, n - 1)

BatchOf(k) == CHOOSE i \in 1..Len(batchLog) : SumTo(batchLog, i - 1) < k /\ k <= SumTo(batchLog, i)

ChunkMates(k) ==
    LET i == BatchOf(k)
        base == SumTo(batchLog, i - 1)
        c == CHOOSE j \in 1..Len(chunkLog[i]) :
                base + SumTo(chunkLog[i], j - 1) < k /\ k <= base + SumTo(chunkLog[i], j)
    IN  (base + SumTo(chunkLog[i], c - 1) + 1)..(base + SumTo(chunkLog[i], c))

(* C28: a sub-chunk that fails does not abort its batch: every record of   *)
(* a drained batch outside the failing sub-chunk is pushed once, the       *)
(* continuation of the cycle stays runnable, and the stream is neither     *)
(* errored nor destroyed before it ends.                                   *)
C28_ChunkFailureContained ==
    /\ \A k \in 1..SumSeq(batchLog) :
            CountIn(pushLog, RecId(1, k)) =
                (IF \E m \in ChunkMates(k) : RecId(1, m) \in poison THEN 0 ELSE 1)
    /\ pProcessing => pPending # "none"
    /\ promise[1] # "rejected" /\ fatal = {}
    /\ pState = "destroyed" => promise[1] = "resolved"

C28_Witness ==
    /\ promise[1] = "resolved"
    /\ ~pProcessing
    /\ options.batchSize = 5
    /\ poison = {RecId(1, 3)}
    /\ pushLog = <<RecId(1, 1), RecId(1, 2), RecId(1, 5), RecId(1, 6)>>

(* C29: the records of a source are pushed, and added to every window, in  *)
(* the order they were decoded, across batches and sub-chunks.             *)
C29_DecodeOrderKept ==
    /\ \A i, j \in 1..Len(pushLog) :
            (i < j /\ pushLog[i] \div 10 = pushLog[j] \div 10) => pushLog[i] < pushLog[j]
    /\ \A k \in DOMAIN windows : \A i, j \in 1..Len(windows[k]) :
            (i < j /\ SrcOf(windows[k][i]) = SrcOf(windows[k][j])) =>
                IdOf(windows[k][i]) <= IdOf(windows[k][j])

C29_Witness ==
    /\ Len(batchLog) >= 2
    /\ Len(pushLog) = BMaxRecs
    /\ \E i \in 1..Len(chunkLog) : Len(chunkLog[i]) >= 2
    /\ \E k \in DOMAIN windows : Len(windows[k]) = BMaxRecs

(* C30: a window key evicted by cleanupWindows is never in the map again.  *)
C30_NoResurrection == evicted \cap DOMAIN windows = {}

C30_Witness == evicted # {} /\ lastAdd > lastCleanup /\ DOMAIN windows # {}

(***************************************************************************)
(* Ticks.                                                                  *)
(***************************************************************************)
(* The windows old enough for a tick at the time t.                        *)
Eligible(w, t) == {k \in DOMAIN w : t - k >= options.slidingInterval}

(* A step in which processWindows starts to execute.                       *)
TickStarts == ~aggProcessing /\ aggProcessing'

(* A step in which an executing tick visits its next window.               *)
TickVisits == aggProcessing /\ tickQueue # <<>> /\ Len(tickQueue') = Len(tickQueue) - 1

LastEmitted(log) == log[Len(log)]

(* C31: while the subscriber is attached, a starting tick plans exactly    *)
(* the tracked windows at least slidingInterval old (one visit each, none  *)
(* for a younger window), every visit delivers one event whose timestamp   *)
(* is the window's startTime and whose count is the number of its records  *)
(* at that moment, and no other step delivers an event.                    *)
C31_TickEmitsEligibleWindows ==
    [][/\ (TickStarts /\ "engine" \in aggListeners) =>
            /\ Len(emitted') = Len(emitted) + 1
            /\ {LastEmitted(emitted').timestamp}
                    \cup {tickQueue'[i].startTime : i \in 1..Len(tickQueue')}
                 = Eligible(windows, now)
            /\ 1 + Len(tickQueue') = Cardinality(Eligible(windows, now))
            /\ LastEmitted(emitted').count
                 = Len(windows[LastEmitted(emitted').timestamp])
       /\ (TickVisits /\ "engine" \in aggListeners) =>
            /\ Len(emitted') = Len(emitted) + 1
            /\ LastEmitted(emitted').timestamp = Head(tickQueue).startTime
            /\ LastEmitted(emitted').count = Len(EntryRecords(Head(tickQueue)))
            /\ LastEmitted(emitted').count > 0
       /\ (~TickStarts /\ ~TickVisits) => emitted' = emitted]_vars

(* A retained window was delivered by two ticks, the second time with more *)
(* records.                                                                *)
C31_Witness ==
    \E i, j \in 1..Len(emitted) :
        /\ i < j
        /\ emitted[i].timestamp = emitted[j].timestamp
        /\ emitted[j].count > emitted[i].count

(* C32: the events of one tick carry strictly descending timestamps and    *)
(* the first belongs to the most recent eligible window; with windowSize   *)
(* twice slidingInterval, two records added at the start time and the      *)
(* first tick one slidingInterval later, the first event counts 2 records  *)
(* and is stamped with the start time rounded down to the interval.        *)
C32_DescendingWithinTick ==
    /\ [](\A i, j \in 1..Len(tickLog) :
            i < j => tickLog[i].timestamp > tickLog[j].timestamp)
    /\ [][(TickStarts /\ "engine" \in aggListeners) =>
            /\ \A k \in Eligible(windows, now) : k <= tickLog'[1].timestamp
            /\ (/\ options.windowSize = 2 * options.slidingInterval
                /\ emitted = <<>>
                /\ decoded[1] = 2
                /\ lastAdd = StartTime
                /\ now = StartTime + options.slidingInterval) =>
                    /\ emitted'[1].count = 2
                    /\ emitted'[1].timestamp =
                         (StartTime \div options.slidingInterval)
                            * options.slidingInterval]_vars

(* The example: the first event ever, from the tick one interval after two *)
(* records arrived together, followed by an older window's event.          *)
C32_Witness ==
    /\ options.windowSize = 2 * options.slidingInterval
    /\ decoded[1] = 2
    /\ lastAdd = StartTime
    /\ Len(tickLog) >= 2
    /\ emitted = tickLog
    /\ emitted[1].count = 2
    /\ emitted[1].timestamp = StartTime

(* A step in which the interval timer calls processWindows.                *)
TimerFires == nextFire' # nextFire

(* C33: a timer call made while a tick is executing delivers nothing and   *)
(* leaves the aggregator as it was; the step that ends a tick clears the   *)
(* in-progress flag, which is cleared only once every planned window was   *)
(* visited; and a timer call made while no tick is executing starts one    *)
(* when a window is eligible.                                              *)
C33_OneTickAtATime ==
    /\ [][(aggProcessing /\ TimerFires) =>
            UNCHANGED <<windows, lastCleanup, timer, aggProcessing, tickQueue,
                        aggListeners, results, emitted, tickLog>>]_vars
    /\ [][(aggProcessing /\ tickQueue = <<>> /\ TickEnd) => ~aggProcessing']_vars
    /\ [][(aggProcessing /\ ~aggProcessing') =>
            (tickQueue = <<>> /\ emitted' = emitted)]_vars
    /\ [][(~aggProcessing /\ TimerFires /\ Eligible(windows, now) # {}) =>
            aggProcessing']_vars

(* All records arrived before the first timer call, the timer has called   *)
(* three times, and only one tick has delivered events: a call found the   *)
(* tick executing.                                                         *)
C33_Witness ==
    /\ timer
    /\ aggProcessing
    /\ decoded[1] >= 1
    /\ lastAdd = StartTime
    /\ nextFire = StartTime + 4 * options.slidingInterval
    /\ emitted = tickLog
    /\ emitted # <<>>

(* C34: with a subscriber that throws on every event, a tick still visits  *)
(* every eligible window and delivers each event to the first subscriber,  *)
(* the process stays alive, the tick's last step clears the in-progress    *)
(* flag, and the next timer call starts a tick as usual.                   *)
C34_FailureAbsorbed ==
    /\ []("thrower" \in aggListeners => ~crashed)
    /\ [][("thrower" \in aggListeners /\ TickStarts) =>
            /\ Len(emitted') = Len(emitted) + 1
            /\ results' = Append(results, LastEmitted(emitted'))
            /\ 1 + Len(tickQueue') = Cardinality(Eligible(windows, now))]_vars
    /\ [][("thrower" \in aggListeners /\ TickVisits) =>
            /\ Len(emitted') = Len(emitted) + 1
            /\ results' = Append(results, LastEmitted(emitted'))
            /\ LastEmitted(emitted').timestamp = Head(tickQueue).startTime]_vars
    /\ [][("thrower" \in aggListeners /\ aggProcessing /\ ~aggProcessing') =>
            tickQueue = <<>>]_vars
    /\ [][(/\ "thrower" \in aggListeners
           /\ ~aggProcessing
           /\ TimerFires
           /\ Eligible(windows, now) # {}) => aggProcessing']_vars

(* With the throwing subscriber attached, a tick delivered two windows and *)
(* a later tick has delivered again.                                       *)
C34_Witness ==
    /\ "thrower" \in aggListeners
    /\ Len(tickLog) >= 2
    /\ Len(results) >= Len(tickLog) + 2
    /\ results = emitted

(***************************************************************************)
(* Groups of a window.                                                     *)
(***************************************************************************)
(* The fields of a record but its timestamp, in their order.               *)
NonTimestamp(rec) == SelectSeq(rec, LAMBDA f : f.key # "timestamp")

(* a and b have the same non-timestamp fields, in the same order, with     *)
(* values that render to the same text.                                    *)
SameRendering(a, b) ==
    LET x == NonTimestamp(a)
        y == NonTimestamp(b)
    IN  /\ Len(x) = Len(y)
        /\ \A i \in 1..Len(x) : x[i].key = y[i].key /\ Render(x[i]) = Render(y[i])

(* C35: in every window, the group a record is counted in holds exactly    *)
(* the records with the same non-timestamp fields, in the same order, with *)
(* values that render to the same text.                                    *)
C35_GroupsByRenderedFields ==
    \A k \in DOMAIN windows : \A i \in 1..Len(windows[k]) :
        LET r == windows[k][i]
        IN  /\ getGroupKey(r) \in DOMAIN WindowData(k)
            /\ WindowData(k)[getGroupKey(r)].count =
                 Cardinality({j \in 1..Len(windows[k]) :
                                SameRendering(r, windows[k][j])})

(* The records of a window that are counted in the group g.                *)
GroupRecords(k, g) == SelectSeq(windows[k], LAMBDA r : getGroupKey(r) = g)

(* The values of the field f in recs that are numbers, not texts.          *)
NumericOccurrences(recs, f) ==
    LET kept == SelectSeq(recs, LAMBDA r : HasField(r, f) /\ FieldOf(r, f).isNum)
    IN  [i \in 1..Len(kept) |-> FieldOf(kept[i], f).num]

(* C36: the statistics of a field that is numeric in the first record of a *)
(* group are those of the occurrences of the field that are numbers: a     *)
(* textual or missing occurrence adds nothing to sum, avg, max or min.     *)
C36_TextualOccurrencesSkipped ==
    \A k \in DOMAIN windows : \A g \in DOMAIN WindowData(k) :
        \A f \in DOMAIN WindowData(k)[g].stats :
            LET v == NumericOccurrences(GroupRecords(k, g), f)
                st == WindowData(k)[g].stats[f]
            IN  /\ st.sum = SumSeq(v)
                /\ st.avg = <<SumSeq(v), Len(v)>>
                /\ st.max = MaxSeq(v)
                /\ st.min = MinSeq(v)

RECURSIVE SumCounts(_, _)
SumCounts(data, keys) ==
    IF keys = {} THEN 0
    ELSE LET g == CHOOSE x \in keys : TRUE
         IN  data[g].count + SumCounts(data, keys \ {g})

(* C39: in every delivered event the per-group counts sum to the event's   *)
(* count, and every record of a window is counted in a group of its data.  *)
C39_GroupsPartitionWindow ==
    /\ \A i \in 1..Len(emitted) :
            SumCounts(emitted[i].data, DOMAIN emitted[i].data) = emitted[i].count
    /\ \A k \in DOMAIN windows :
            /\ SumCounts(WindowData(k), DOMAIN WindowData(k)) = Len(windows[k])
            /\ \A i \in 1..Len(windows[k]) :
                    getGroupKey(windows[k][i]) \in DOMAIN WindowData(k)

(* A delivered event of three records in two groups.                       *)
C39_Witness ==
    \E i \in 1..Len(emitted) :
        /\ emitted[i].count = 3
        /\ Cardinality(DOMAIN emitted[i].data) = 2

(* The texts of the samples that hold a separator of the group key.        *)
SeparatorTexts == {"A|value:10"}

SeparatorFree(rec) == \A i \in 1..Len(rec) : rec[i].isNum \/ rec[i].str \notin SeparatorTexts

(* The occurrences of the field f in recs that enter the statistics: the   *)
(* numbers, and the texts that convert to a number.                        *)
CountedOccurrences(recs, f) == Len(SelectSeq(recs, LAMBDA r : IsNumberLike(r, f)))

C37_NoResultsAfterCleanup ==
    [][~timer => (/\ ~timer'
                  /\ aggListeners' = {}
                  /\ results' = <<>>
                  /\ emitted' = emitted)]_vars

(* After cleanup() a source was processed: its records are in windows old  *)
(* enough for a tick, the timer would be due, and no result was appended.  *)
C37_Witness ==
    /\ ~timer
    /\ \E s \in Src : promise[s] # "none" /\ decoded[s] > 0
    /\ \E k \in DOMAIN windows : now - k >= options.slidingInterval
    /\ now >= nextFire
    /\ results = <<>>

(***************************************************************************)
(* Placement for any positive windowSize and slidingInterval.              *)
(***************************************************************************)
(* C38: every addRecord call stores its record in the window aligned at    *)
(* floor(now / slidingInterval) * slidingInterval.                         *)
C38_AlignedWindowAlwaysStores ==
    [][decoded'[1] = decoded[1] + 1 =>
        StoredIn(windows',
                 (now \div options.slidingInterval) * options.slidingInterval,
                 IdOf(SourceRecord(1, decoded'[1])))]_vars

====
